---- MODULE Spec2Model ----
(***************************************************************************)
(* Model of src/app.py: the SubtitleOverlay pipeline.                      *)
(*                                                                         *)
(*   _capture_loop     records frames, classifies them with the VAD and    *)
(*                     puts runs of voiced frames on audio_queue;          *)
(*   _transcribe_loop  takes chunks from audio_queue, runs ASR and the     *)
(*                     translation and puts display strings on text_queue; *)
(*   _gui_loop         polls text_queue from a timer and shows the text;   *)
(*                     closing the window clears the running flag.         *)
(*                                                                         *)
(* A frame is represented by its position in capture order (1, 2, ...).    *)
(* A text is a sequence of characters; the external capabilities (VAD,     *)
(* ASR, translation) answer nondeterministically from small sets.          *)
(* The variables frames, emitted, transcripts, published, shown, warm and   *)
(* at_stop and the fields seq and src of the queue items are history: they *)
(* record what the program did and never influence it.                     *)
(***************************************************************************)
EXTENDS Integers, Sequences, FiniteSets, TLC

\* ---------------------------------------------------------------- constants
FRAME_MS == 30

MAX_CHUNK_FRAMES == 10000 \div FRAME_MS

\* ------------------------------------------------------------------- bounds
\* Number of frames recorded after the initial state.
MaxFrames == 5

\* Length of the voiced run the capture loop has already accumulated in the
\* initial state: none (the state right after run() started the threads), or
\* a run two frames short of the cap (the capture thread has recorded that
\* many voiced frames before the other threads were scheduled; the state is
\* the one CaptureWhile and CaptureFrame(TRUE) reach from the first after
\* MAX_CHUNK_FRAMES - 2 iterations).  It brings the cap within MaxFrames.
WarmRuns == {0, MAX_CHUNK_FRAMES - 2}

\* Fragment lists the ASR capability may return for a chunk.
ASRResults ==
  { << >>,
    << <<" ">> >>,
    << <<"a">> >>,
    << <<" ", "a">>, <<" ", "b", " ">> >> }

\* Raw message contents the translation capability may return.
TranslateResults == { <<" ", "k", " ">>, <<" ">> }

\* str(exc) of the exceptions the translation call may raise.
TranslateErrors == { <<"t", "i", "m", "e", "d", " ", "o", "u", "t">>, << >> }

\* ------------------------------------------------------------ pure helpers
Whitespace == {" ", "\t", "\n"}

RECURSIVE LStrip(_)
LStrip(s) ==
  IF s # << >> /\ Head(s) \in Whitespace THEN LStrip(Tail(s)) ELSE s

RECURSIVE RStrip(_)
RStrip(s) ==
  IF s # << >> /\ s[Len(s)] \in Whitespace
  THEN RStrip(SubSeq(s, 1, Len(s) - 1))
  ELSE s

\* str.strip()
StripId(s) == s

Strip(s) == RStrip(LStrip(s))

\* "".join(seg.text for seg in segments)
RECURSIVE Join(_)
Join(frags) ==
  IF frags = << >> THEN << >> ELSE Head(frags) \o Join(Tail(frags))

\* `if text:`
TruthyLong(t) == Len(t) > 1

Truthy(t) == t # << >>

\* f"[Translation error: {exc}]"
ErrorTextBare(e) == e

ErrorText(e) == <<"[", "T", "r", "a", "n", "s", "l", "a", "t", "i", "o", "n",
                  " ", "e", "r", "r", "o", "r", ":", " ">> \o e \o <<"]">>

\* `len(voiced_frames) >= MAX_CHUNK_FRAMES`
CapReachedLate(vf) == Len(vf) > MAX_CHUNK_FRAMES

CapReached(vf) == Len(vf) >= MAX_CHUNK_FRAMES

\* `elif voiced_frames:`
NonEmptyAlways(vf) == TRUE

NonEmpty(vf) == vf # << >>

\* b"".join(voiced_frames)
JoinFramesShort(vf) == SubSeq(vf, 1, Len(vf) - 1)

JoinFrames(vf) == vf

\* `voiced_frames = []`
EmptiedKept(vf) == vf

Emptied(vf) == << >>

\* queue.Queue: put appends at the tail, get removes the head.
QPut(q, x) == Append(q, x)

QGetNewest(q) == [item |-> q[Len(q)], rest |-> SubSeq(q, 1, Len(q) - 1)]

QGet(q) == [item |-> Head(q), rest |-> Tail(q)]

\* ------------------------------------------------------------------- state
VARIABLES
  running,        \* self.running
  audio_queue,    \* self.audio_queue
  text_queue,     \* self.text_queue
  cpc,            \* position of _capture_loop
  voiced_frames,  \* local of _capture_loop
  tpc,            \* position of _transcribe_loop
  chunk,          \* local of _transcribe_loop
  text,           \* local of _transcribe_loop
  translation,    \* local of _transcribe_loop
  exc,            \* local of _transcribe_loop
  gpc,            \* position of the GUI thread
  label,          \* text shown by the label widget
  frames,         \* history: VAD classification of every frame recorded
  emitted,        \* history: every chunk put on audio_queue
  transcripts,    \* history: chunks whose ASR text was non-empty
  published,      \* history: every item put on text_queue
  shown,          \* history: every item the GUI took from text_queue
  warm,           \* history: length of the run accumulated initially
  at_stop         \* history: the number of chunks and of texts put, and
                  \* whether _transcribe_loop held a chunk, when running was
                  \* cleared

vars == << running, audio_queue, text_queue, cpc, voiced_frames, tpc, chunk,
           text, translation, exc, gpc, label, frames, emitted, transcripts,
           published, shown, warm, at_stop >>

captureVars == << cpc, voiced_frames, frames, emitted >>

transcribeVars == << tpc, chunk, text, translation, exc, transcripts,
                     published >>

guiVars == << gpc, label, shown >>

NoChunk == [seq |-> 0, frames |-> << >>]

Listening == <<"L", "i", "s", "t", "e", "n", "i", "n", "g", ".", ".", ".">>

Init ==
  /\ running = TRUE
  /\ audio_queue = << >>
  /\ text_queue = << >>
  /\ cpc = "while"
  /\ warm \in WarmRuns
  /\ voiced_frames = [i \in 1..warm |-> i]
  /\ frames = [i \in 1..warm |-> TRUE]
  /\ emitted = << >>
  /\ tpc = "while"
  /\ chunk = NoChunk
  /\ text = << >>
  /\ translation = << >>
  /\ exc = << >>
  /\ transcripts = {}
  /\ published = << >>
  /\ gpc = "idle"
  /\ label = Listening
  /\ shown = << >>
  /\ at_stop = [emitted |-> 0, published |-> 0, in_flight |-> FALSE]

\* ------------------------------------------------------------ _capture_loop
\* self.audio_queue.put(b"".join(vf))
Emit(vf) ==
  LET seg == [seq |-> Len(emitted) + 1, frames |-> JoinFrames(vf)]
  IN  /\ audio_queue' = QPut(audio_queue, seg)
      /\ emitted' = Append(emitted, seg)

\* `while self.running:`
CaptureWhileFlush ==
  /\ cpc = "while"
  /\ cpc' = IF running THEN "record" ELSE "done"
  /\ IF ~running /\ voiced_frames # << >>
     THEN /\ Emit(voiced_frames)
          /\ voiced_frames' = << >>
     ELSE UNCHANGED << audio_queue, voiced_frames, emitted >>
  /\ UNCHANGED << running, text_queue, frames, warm, at_stop >>
  /\ UNCHANGED transcribeVars
  /\ UNCHANGED guiVars

CaptureWhile ==
  /\ cpc = "while"
  /\ cpc' = IF running THEN "record" ELSE "done"
  /\ UNCHANGED << running, audio_queue, text_queue, voiced_frames, frames,
                  emitted, warm, at_stop >>
  /\ UNCHANGED transcribeVars
  /\ UNCHANGED guiVars

\* One iteration of the loop body: record a frame, classify it (v), and
\* update the accumulator.
CaptureFrame(v) ==
  /\ cpc = "record"
  /\ frames' = Append(frames, v)
  /\ LET fid == Len(frames) + 1
         vf  == Append(voiced_frames, fid)
     IN  IF v
         THEN IF CapReached(vf)
              THEN /\ Emit(vf)
                   /\ voiced_frames' = Emptied(vf)
              ELSE /\ voiced_frames' = vf
                   /\ UNCHANGED << audio_queue, emitted >>
         ELSE IF NonEmpty(voiced_frames)
              THEN /\ Emit(voiced_frames)
                   /\ voiced_frames' = Emptied(voiced_frames)
              ELSE UNCHANGED << voiced_frames, audio_queue, emitted >>
  /\ cpc' = "while"
  /\ UNCHANGED << running, text_queue, warm, at_stop >>
  /\ UNCHANGED transcribeVars
  /\ UNCHANGED guiVars

CaptureRecord ==
  /\ Len(frames) < warm + MaxFrames
  /\ \E v \in BOOLEAN : CaptureFrame(v)

\* --------------------------------------------------------- _transcribe_loop
\* `while self.running:`
TranscribeWhileForever ==
  /\ tpc = "while"
  /\ tpc' = "get"
  /\ UNCHANGED << running, audio_queue, text_queue, chunk, text, translation,
                  exc, transcripts, published, warm, at_stop >>
  /\ UNCHANGED captureVars
  /\ UNCHANGED guiVars

TranscribeWhile ==
  /\ tpc = "while"
  /\ tpc' = IF running THEN "get" ELSE "done"
  /\ UNCHANGED << running, audio_queue, text_queue, chunk, text, translation,
                  exc, transcripts, published, warm, at_stop >>
  /\ UNCHANGED captureVars
  /\ UNCHANGED guiVars

\* `chunk = self.audio_queue.get()`: blocks while the queue is empty.
TranscribeGet ==
  /\ tpc = "get"
  /\ audio_queue # << >>
  /\ chunk' = QGet(audio_queue).item
  /\ audio_queue' = QGet(audio_queue).rest
  /\ tpc' = "transcribe"
  /\ UNCHANGED << running, text_queue, text, translation, exc, transcripts,
                  published, warm, at_stop >>
  /\ UNCHANGED captureVars
  /\ UNCHANGED guiVars

\* ASR returns fragments; they are joined and stripped; `if text:`.
TranscribeASR ==
  /\ tpc = "transcribe"
  /\ \E frags \in ASRResults :
       LET t == Strip(Join(frags))
       IN  /\ text' = t
           /\ transcripts' = IF t # << >> THEN transcripts \cup {chunk.seq}
                                          ELSE transcripts
           /\ IF Truthy(t)
              THEN /\ tpc' = "translate"
                   /\ UNCHANGED chunk
              ELSE /\ tpc' = "while"
                   /\ chunk' = NoChunk
  /\ UNCHANGED << running, audio_queue, text_queue, translation, exc,
                  published, warm, at_stop >>
  /\ UNCHANGED captureVars
  /\ UNCHANGED guiVars

\* The ASR call raises: nothing catches it, the thread ends.
TranscribeASRRaisesAndStops ==
  /\ tpc = "transcribe"
  /\ tpc' = "crashed"
  /\ running' = FALSE
  /\ UNCHANGED << audio_queue, text_queue, chunk, text, translation,
                  exc, transcripts, published, warm, at_stop >>
  /\ UNCHANGED captureVars
  /\ UNCHANGED guiVars

TranscribeASRRaises ==
  /\ tpc = "transcribe"
  /\ tpc' = "crashed"
  /\ UNCHANGED << running, audio_queue, text_queue, chunk, text, translation,
                  exc, transcripts, published, warm, at_stop >>
  /\ UNCHANGED captureVars
  /\ UNCHANGED guiVars

\* translate_text returns: the message content, stripped.
TranslateReturns ==
  /\ tpc = "translate"
  /\ \E resp \in TranslateResults : translation' = Strip(resp)
  /\ tpc' = "put"
  /\ UNCHANGED << running, audio_queue, text_queue, chunk, text, exc,
                  transcripts, published, warm, at_stop >>
  /\ UNCHANGED captureVars
  /\ UNCHANGED guiVars

\* translate_text raises: control goes to the except clause.
TranslateRaises ==
  /\ tpc = "translate"
  /\ \E e \in TranslateErrors : exc' = e
  /\ tpc' = "except"
  /\ UNCHANGED << running, audio_queue, text_queue, chunk, text, translation,
                  transcripts, published, warm, at_stop >>
  /\ UNCHANGED captureVars
  /\ UNCHANGED guiVars

\* The end of an iteration: the locals are dead.
EndIteration ==
  /\ tpc' = "while"
  /\ chunk' = NoChunk
  /\ text' = << >>
  /\ translation' = << >>
  /\ exc' = << >>

\* `self.text_queue.put(translation)`
PutTranslationIfRunning ==
  /\ tpc = "put"
  /\ LET item == [src |-> chunk.seq, text |-> translation]
     IN  IF running
         THEN /\ text_queue' = QPut(text_queue, item)
              /\ published' = Append(published, item)
         ELSE UNCHANGED << text_queue, published >>
  /\ EndIteration
  /\ UNCHANGED << running, audio_queue, transcripts, warm, at_stop >>
  /\ UNCHANGED captureVars
  /\ UNCHANGED guiVars

PutTranslation ==
  /\ tpc = "put"
  /\ LET item == [src |-> chunk.seq, text |-> translation]
     IN  /\ text_queue' = QPut(text_queue, item)
         /\ published' = Append(published, item)
  /\ EndIteration
  /\ UNCHANGED << running, audio_queue, transcripts, warm, at_stop >>
  /\ UNCHANGED captureVars
  /\ UNCHANGED guiVars

\* `self.text_queue.put(f"[Translation error: {exc}]")`
PutError ==
  /\ tpc = "except"
  /\ LET item == [src |-> chunk.seq, text |-> ErrorText(exc)]
     IN  /\ text_queue' = QPut(text_queue, item)
         /\ published' = Append(published, item)
  /\ EndIteration
  /\ UNCHANGED << running, audio_queue, transcripts, warm, at_stop >>
  /\ UNCHANGED captureVars
  /\ UNCHANGED guiVars

\* ---------------------------------------------------------------- _gui_loop
\* update_label: `if not self.text_queue.empty():`; otherwise the callback
\* re-arms the timer and returns.
UpdateLabelCheckAlways ==
  /\ gpc = "idle"
  /\ gpc' = "get"
  /\ UNCHANGED << running, audio_queue, text_queue, label, shown, warm,
                  at_stop >>
  /\ UNCHANGED captureVars
  /\ UNCHANGED transcribeVars

UpdateLabelCheck ==
  /\ gpc = "idle"
  /\ gpc' = IF text_queue # << >> THEN "get" ELSE "idle"
  /\ UNCHANGED << running, audio_queue, text_queue, label, shown, warm,
                  at_stop >>
  /\ UNCHANGED captureVars
  /\ UNCHANGED transcribeVars

\* update_label: `label.configure(text=self.text_queue.get())`, then the
\* timer is re-armed.
UpdateLabelGet ==
  /\ gpc = "get"
  /\ text_queue # << >>
  /\ label' = QGet(text_queue).item.text
  /\ shown' = Append(shown, QGet(text_queue).item)
  /\ text_queue' = QGet(text_queue).rest
  /\ gpc' = "idle"
  /\ UNCHANGED << running, audio_queue, warm, at_stop >>
  /\ UNCHANGED captureVars
  /\ UNCHANGED transcribeVars

\* on_close: runs between timer callbacks, on the GUI thread.
OnClose ==
  /\ gpc = "idle"
  /\ running' = FALSE
  /\ gpc' = "closed"
  /\ at_stop' = [emitted |-> Len(emitted), published |-> Len(published),
                 in_flight |-> chunk # NoChunk]
  /\ UNCHANGED << audio_queue, text_queue, label, shown, warm >>
  /\ UNCHANGED captureVars
  /\ UNCHANGED transcribeVars

\* ------------------------------------------------------------ specification
Next ==
  \/ CaptureWhile
  \/ CaptureRecord
  \/ TranscribeWhile
  \/ TranscribeGet
  \/ TranscribeASR
  \/ TranscribeASRRaises
  \/ TranslateReturns
  \/ TranslateRaises
  \/ PutTranslation
  \/ PutError
  \/ UpdateLabelCheck
  \/ UpdateLabelGet
  \/ OnClose

Spec == Init /\ [][Next]_vars

\* The frame stream of the scenario "5 voiced, 3 non-voiced, 5 voiced".
Scenario5 == << TRUE, TRUE, TRUE, TRUE, TRUE, FALSE, FALSE, FALSE,
                TRUE, TRUE, TRUE, TRUE, TRUE >>

InitScenario ==
  /\ Init
  /\ warm = 0

\* The capture loop is fed the scenario's frames, then one frame of either
\* classification.
ScenarioRecord ==
  /\ Len(frames) < Len(Scenario5) + 1
  /\ \E v \in (IF Len(frames) < Len(Scenario5)
                THEN {Scenario5[Len(frames) + 1]}
                ELSE BOOLEAN) : CaptureFrame(v)

NextScenario ==
  \/ CaptureWhile
  \/ ScenarioRecord
  \/ TranscribeWhile
  \/ TranscribeGet
  \/ TranscribeASR
  \/ TranscribeASRRaises
  \/ TranslateReturns
  \/ TranslateRaises
  \/ PutTranslation
  \/ PutError
  \/ UpdateLabelCheck
  \/ UpdateLabelGet
  \/ OnClose

SpecScenario == InitScenario /\ [][NextScenario]_vars

TypeOK ==
  /\ running \in BOOLEAN
  /\ cpc \in {"while", "record", "done"}
  /\ tpc \in {"while", "get", "transcribe", "translate", "put", "except",
              "crashed", "done"}
  /\ gpc \in {"idle", "get", "closed"}

\* ------------------------------------------------ reading the frame history
Max(S) == CHOOSE m \in S : \A k \in S : k <= m

Min(S) == CHOOSE m \in S : \A k \in S : m <= k

Range(f) == {f[k] : k \in DOMAIN f}

\* First frame of the run of voiced frames that contains the voiced frame i.
RunStartOf(i) ==
  LET silent == {k \in 1..i : ~frames[k]}
  IN  IF silent = {} THEN 1 ELSE Max(silent) + 1

\* Last frame, so far, of the run that contains the voiced frame i.
RunEndOf(i) ==
  LET silent == {k \in i..Len(frames) : ~frames[k]}
  IN  IF silent = {} THEN Len(frames) ELSE Min(silent) - 1

\* Position of the voiced frame i within its run (1 for the first frame).
RunPos(i) == i - RunStartOf(i) + 1

\* The frames a..b in capture order.
FramesFromTo(a, b) == [k \in 1..(b - a + 1) |-> a + k - 1]

LastFrameOf(s) == s.frames[Len(s.frames)]

Segments == {emitted[k] : k \in DOMAIN emitted}

\* A step of the capture loop that records a non-voiced frame.
SilenceArrives ==
  /\ Len(frames') = Len(frames) + 1
  /\ ~frames'[Len(frames')]

\* ------------------------------------------------------------------- claims

\* C1: every chunk that _capture_loop has put on audio_queue holds at least
\* one frame and at most MAX_CHUNK_FRAMES frames, whatever the sequence of
\* voiced / non-voiced classifications.
C1_SegmentLengthBounded ==
  \A s \in Segments :
    /\ Len(s.frames) >= 1
    /\ Len(s.frames) <= MAX_CHUNK_FRAMES

\* C1 witness: a chunk of one frame and a chunk of MAX_CHUNK_FRAMES frames
\* have both been put on the queue.
C1_Witness ==
  /\ \E s \in Segments : Len(s.frames) = 1
  /\ \E s \in Segments : Len(s.frames) = MAX_CHUNK_FRAMES

\* C2: in a run of voiced frames longer than MAX_CHUNK_FRAMES a chunk is
\* emitted the moment the accumulator reaches exactly MAX_CHUNK_FRAMES frames,
\* without waiting for silence; the accumulator is reset, and the rest of the
\* run accumulates as a new chunk that is emitted only by a non-voiced frame
\* or by the cap being reached again.
C2_CapSplitsLongRun ==
  /\ \A i \in MAX_CHUNK_FRAMES..Len(frames) :
       (frames[i] /\ RunPos(i) % MAX_CHUNK_FRAMES = 0)
         => \E s \in Segments :
              s.frames = FramesFromTo(i - MAX_CHUNK_FRAMES + 1, i)
  /\ (frames # << >> /\ frames[Len(frames)])
       => LET n == Len(frames)
              r == RunPos(n) % MAX_CHUNK_FRAMES
          IN  voiced_frames = FramesFromTo(n - r + 1, n)
  /\ \A s \in Segments :
       s.frames # << >> =>
         LET l == LastFrameOf(s)
         IN  \/ RunPos(l) % MAX_CHUNK_FRAMES = 0
             \/ l < Len(frames) /\ ~frames[l + 1]

\* C2 witness: a run longer than the cap is still going on; its first
\* MAX_CHUNK_FRAMES frames have been emitted and the rest is accumulating.
C2_Witness ==
  /\ Len(frames) > MAX_CHUNK_FRAMES
  /\ \A k \in DOMAIN frames : frames[k]
  /\ Len(emitted) = 1
  /\ Len(emitted[1].frames) = MAX_CHUNK_FRAMES
  /\ voiced_frames = FramesFromTo(MAX_CHUNK_FRAMES + 1, Len(frames))

\* C3: a non-voiced frame that arrives while the accumulator is non-empty
\* emits exactly one chunk, equal to the accumulated frames in order, and
\* resets the accumulator; the non-voiced frame is part of no chunk.
C3_SilenceFlushes ==
  [][ (SilenceArrives /\ voiced_frames # << >>)
        => /\ Len(emitted') = Len(emitted) + 1
           /\ SubSeq(emitted', 1, Len(emitted)) = emitted
           /\ emitted'[Len(emitted')].frames = voiced_frames
           /\ audio_queue' = Append(audio_queue, emitted'[Len(emitted')])
           /\ voiced_frames' = << >>
           /\ \A k \in DOMAIN emitted' :
                Len(frames') \notin Range(emitted'[k].frames) ]_vars

\* C3 witness: the last frame recorded is non-voiced and the chunk emitted
\* last ends with the frame before it.
C3_Witness ==
  /\ Len(frames) >= 2
  /\ ~frames[Len(frames)]
  /\ emitted # << >>
  /\ LastFrameOf(emitted[Len(emitted)]) = Len(frames) - 1
  /\ voiced_frames = << >>

\* C4: a non-voiced frame that arrives while the accumulator is empty changes
\* neither the accumulator nor audio_queue; so as long as no voiced frame has
\* been recorded, no chunk has been emitted.
C4_SilenceOnEmptyIsNoOp ==
  /\ [][ (SilenceArrives /\ voiced_frames = << >>)
           => /\ voiced_frames' = << >>
              /\ audio_queue' = audio_queue
              /\ emitted' = emitted ]_vars
  /\ []( (\A k \in DOMAIN frames : ~frames[k]) => emitted = << >> )

\* C4 witness: several frames recorded, all of them non-voiced, nothing queued.
C4_Witness ==
  /\ Len(frames) >= 2
  /\ \A k \in DOMAIN frames : ~frames[k]
  /\ voiced_frames = << >>
  /\ audio_queue = << >>
  /\ emitted = << >>

\* C5 (as stated): after 5 voiced, 3 non-voiced and 5 voiced frames exactly
\* two chunks of 5 frames each have been emitted.
C5_ScenarioTwoEmitted ==
  frames = Scenario5
    => /\ Len(emitted) = 2
       /\ \A s \in Segments : Len(s.frames) = 5

\* C5 (amended): after 5 voiced, 3 non-voiced and 5 voiced frames exactly one
\* chunk has been emitted, the first 5 frames, and the last 5 voiced frames
\* are still in the accumulator; a non-voiced frame after them emits them as
\* the second chunk of 5 frames.
C5_ScenarioOneEmittedOneAccumulating ==
  /\ frames = Scenario5
       => /\ Len(emitted) = 1
          /\ emitted[1].frames = FramesFromTo(1, 5)
          /\ voiced_frames = FramesFromTo(9, 13)
  /\ (frames = Scenario5 \o << FALSE >>)
       => /\ Len(emitted) = 2
          /\ emitted[1].frames = FramesFromTo(1, 5)
          /\ emitted[2].frames = FramesFromTo(9, 13)
          /\ voiced_frames = << >>

\* C5 witness: the 13 frames of the scenario have been recorded.
C5_Witness ==
  /\ frames = Scenario5
  /\ cpc = "while"
  /\ Len(emitted) = 1
  /\ Len(voiced_frames) = 5

SameRun(s1, s2) == RunStartOf(s1.frames[1]) = RunStartOf(s2.frames[1])

\* C6 (as stated): at most one chunk is emitted for every maximal run of
\* voiced frames.
C6_AtMostOnePerRun ==
  \A i, j \in DOMAIN emitted :
    i # j => ~SameRun(emitted[i], emitted[j])

\* C6 (amended): for a run of L voiced frames at most ceil(L /
\* MAX_CHUNK_FRAMES) chunks are emitted: at most one when the run is no
\* longer than MAX_CHUNK_FRAMES.
C6_AtMostCeilPerRun ==
  \A i \in DOMAIN emitted :
    emitted[i].frames # << >> =>
      LET a == RunStartOf(emitted[i].frames[1])
          b == RunEndOf(emitted[i].frames[1])
          n == Cardinality({j \in DOMAIN emitted :
                              /\ emitted[j].frames # << >>
                              /\ RunStartOf(emitted[j].frames[1]) = a})
      IN  n * MAX_CHUNK_FRAMES <= (b - a + 1) + MAX_CHUNK_FRAMES - 1

\* C6 witness: a run longer than the cap has ended and two chunks were
\* emitted for it.
C6_Witness ==
  /\ Len(emitted) = 2
  /\ SameRun(emitted[1], emitted[2])
  /\ Len(emitted[1].frames) = MAX_CHUNK_FRAMES
  /\ ~frames[Len(frames)]

IsBlank(t) == \A k \in DOMAIN t : t[k] \in Whitespace

\* C7: when the ASR text of a chunk is empty or only whitespace, nothing is
\* forwarded: the translation is not called, nothing is put on text_queue
\* for the chunk, and the loop goes on to the next chunk.
C7_BlankTranscriptNotForwarded ==
  /\ [][ (tpc = "transcribe" /\ tpc' \notin {"transcribe", "crashed"}
            /\ IsBlank(text'))
           => /\ tpc' = "while"
              /\ text_queue' = text_queue
              /\ published' = published ]_vars
  /\ [](tpc \in {"translate", "put", "except"} => ~IsBlank(text))

\* C7 witness: every chunk emitted has been consumed, none gave a transcript,
\* nothing was published and the loop is back at its condition.
C7_Witness ==
  /\ Len(emitted) >= 2
  /\ audio_queue = << >>
  /\ tpc = "while"
  /\ transcripts = {}
  /\ published = << >>

ErrorPrefix == <<"[", "T", "r", "a", "n", "s", "l", "a", "t", "i", "o", "n",
                 " ", "e", "r", "r", "o", "r", ":", " ">>

IsErrorMarker(t) ==
  /\ Len(t) >= Len(ErrorPrefix) + 1
  /\ SubSeq(t, 1, Len(ErrorPrefix)) = ErrorPrefix
  /\ t[Len(t)] = "]"

\* C8: when the translation fails for a non-empty transcript, the text
\* "[Translation error: <reason>]" is put on text_queue, the failure does not
\* end the loop, and the loop goes back to its condition for the next chunk.
C8_TranslationFailureContained ==
  /\ [][ tpc = "translate" => tpc' \in {"translate", "put", "except"} ]_vars
  /\ [][ (tpc = "except" /\ tpc' # "except")
           => /\ tpc' = "while"
              /\ Len(text_queue') = Len(text_queue) + 1
              /\ SubSeq(text_queue', 1, Len(text_queue)) = text_queue
              /\ LET d == text_queue'[Len(text_queue')]
                 IN  /\ d.src = chunk.seq
                     /\ d.text = ErrorPrefix \o exc \o <<"]">> ]_vars

\* C8 witness: an error marker was published and a later chunk was then
\* translated and published normally.
C8_Witness ==
  \E i, j \in DOMAIN published :
    /\ i < j
    /\ IsErrorMarker(published[i].text)
    /\ ~IsErrorMarker(published[j].text)

InTranslation(k) ==
  /\ tpc \in {"translate", "put", "except"}
  /\ chunk.seq = k

\* C9: for every non-empty transcript exactly one display text is put on
\* text_queue, the translation or the error marker: none while the
\* translation of that transcript is still running, one from then on, and
\* never two; nothing is put for a chunk without a transcript.
C9_OneDisplayTextPerTranscript ==
  /\ \A k \in transcripts :
       Cardinality({i \in DOMAIN published : published[i].src = k})
         = IF InTranslation(k) THEN 0 ELSE 1
  /\ \A i \in DOMAIN published : published[i].src \in transcripts

\* C9 witness: two transcripts, one translated and one failed, each with its
\* display text.
C9_Witness ==
  /\ Cardinality(transcripts) = 2
  /\ Len(published) = 2
  /\ \E i, j \in DOMAIN published :
       /\ IsErrorMarker(published[i].text)
       /\ ~IsErrorMarker(published[j].text)

Increasing(q, f(_)) ==
  \A i, j \in DOMAIN q : i < j => f(q[i]) < f(q[j])

SrcOf(d) == d.src

SeqOf(s) == s.seq

\* C10: chunks are numbered in the order they are put on audio_queue; the
\* display texts are put on text_queue in the order of their chunks, and the
\* GUI takes them from text_queue in that same order.
C10_EndToEndFIFO ==
  /\ Increasing(emitted, SeqOf)
  /\ Increasing(audio_queue, SeqOf)
  /\ Increasing(published, SrcOf)
  /\ Increasing(shown, SrcOf)
  /\ published = shown \o text_queue

\* C10 witness: the display texts of two chunks were published; the GUI has
\* shown the first and the second is still queued.
C10_Witness ==
  /\ Len(emitted) >= 2
  /\ Len(shown) = 1
  /\ Len(text_queue) = 1
  /\ shown[1].src < text_queue[1].src

\* C11: after the stop flag is set every stage loop exits; in particular a
\* transcription loop that waits on an empty audio_queue when the pipeline is
\* stopped stops waiting: it is not left in get() with the flag cleared, the
\* queue empty and the only producer gone.
C11_StoppedStageStopsWaiting ==
  ~( /\ ~running
     /\ cpc = "done"
     /\ tpc = "get"
     /\ audio_queue = << >> )

\* C12: a failure of the ASR call on one chunk does not end the
\* transcription loop: from the ASR call the loop goes on to the translation
\* or back to its condition.
C12_ASRFailureContained ==
  [][ tpc = "transcribe" => tpc' \in {"transcribe", "translate", "while"} ]_vars

\* C13: running starts True, is written only by on_close, and only from True
\* to False: once False it is never True again, and no stage loop writes it.
C13_StopFlagWriteOnce ==
  /\ running = TRUE
  /\ [][ running' # running
           => /\ running /\ ~running'
              /\ gpc = "idle" /\ gpc' = "closed"
              /\ cpc' = cpc /\ tpc' = tpc ]_vars
  /\ [][ ~running => ~running' ]_vars

\* C13 witness: the flag has been cleared and both loops have read it and
\* left.
C13_Witness ==
  /\ ~running
  /\ gpc = "closed"
  /\ cpc = "done"
  /\ tpc = "done"

\* C14: on a timer tick the GUI drains text_queue and shows the most recent
\* text: after the get the label holds the text enqueued last and text_queue
\* is empty.
C14_TickDrainsAndShowsLatest ==
  [][ (gpc = "get" /\ gpc' = "idle")
        => /\ text_queue' = << >>
           /\ label' = text_queue[Len(text_queue)].text ]_vars

VoicedAt(i) == frames[i]

\* The voiced frames recorded so far, in capture order.
VoicedSoFar == SelectSeq(FramesFromTo(1, Len(frames)), VoicedAt)

RECURSIVE FlattenFrames(_)
FlattenFrames(segs) ==
  IF segs = << >> THEN << >>
  ELSE Head(segs).frames \o FlattenFrames(Tail(segs))

\* C16: no voiced frame is shed, duplicated or reordered: the chunks put on
\* audio_queue so far, concatenated in order and followed by the accumulator,
\* are exactly the voiced frames recorded so far in capture order, however
\* many chunks are still waiting on the queue.
C16_NoVoicedFrameShed ==
  FlattenFrames(emitted) \o voiced_frames = VoicedSoFar

\* C16 witness: two chunks wait on audio_queue, the accumulator holds a
\* third run, and non-voiced frames were recorded in between.
C16_Witness ==
  /\ Len(audio_queue) >= 2
  /\ voiced_frames # << >>
  /\ Len(VoicedSoFar) < Len(frames)

\* C17: the frames in the accumulator when the capture loop reads the
\* cleared flag are never put on audio_queue: the loop leaves without a
\* flush, puts nothing afterwards, and no chunk holds any of those frames.
C17_NoFlushAtExit ==
  /\ [][ (cpc # "done" /\ cpc' = "done")
           => /\ emitted' = emitted
              /\ audio_queue' = audio_queue
              /\ voiced_frames' = voiced_frames ]_vars
  /\ [][ (cpc = "done")
           => /\ cpc' = "done"
              /\ emitted' = emitted
              /\ voiced_frames' = voiced_frames ]_vars
  /\ []( (cpc = "done")
           => \A s \in Segments :
                Range(s.frames) \cap Range(voiced_frames) = {} )

\* C17 witness: the capture loop has left while a run of voiced frames that
\* followed an emitted chunk was still in the accumulator.
C17_Witness ==
  /\ cpc = "done"
  /\ voiced_frames # << >>
  /\ frames[Len(frames)]
  /\ emitted # << >>

\* C18: text_queue.get() in update_label never blocks: whenever the GUI is
\* about to call get() after finding the queue non-empty, the queue still
\* holds an item.
C18_GuiGetNeverBlocks ==
  gpc = "get" => text_queue # << >>

\* C18 witness: the GUI is about to call get() and the transcription thread
\* has put a second text on the queue in the meantime.
C18_Witness ==
  /\ gpc = "get"
  /\ Len(text_queue) = 2

\* C19: after running is cleared the capture loop puts at most one more
\* chunk on audio_queue and the transcription loop puts at most one more
\* display text on text_queue.
C19_PostShutdownWorkBounded ==
  ~running
    => /\ Len(emitted) <= at_stop.emitted + 1
       /\ Len(published) <= at_stop.published + 1

\* C19 witness: after running was cleared one more chunk and one more
\* display text were put, and both loops have left.
C19_Witness ==
  /\ ~running
  /\ cpc = "done"
  /\ tpc = "done"
  /\ Len(emitted) = at_stop.emitted + 1
  /\ Len(published) = at_stop.published + 1

====
